---- MODULE Spec2Model ----
(***************************************************************************)
(* Model of package alias (alias.go): the alias-method sampler.            *)
(*                                                                         *)
(* Go's uint32 / uint64 values range past what a TLC integer holds, and    *)
(* New computes in float64, so the model carries unsigned integers as      *)
(* little-endian sequences of 15-bit limbs ("BN", normalised: no high zero *)
(* limb, zero is <<>>) and float64 values as [neg, m, e] with a 53-bit     *)
(* mantissa m (a BN) and value m * 2^e, every operation rounded to nearest *)
(* even as IEEE 754 does.  Slice lengths, loop indices and int32 weights   *)
(* stay TLC integers.                                                      *)
(***************************************************************************)
EXTENDS Integers, Sequences, FiniteSets, TLC

----------------------------------------------------------------------------
(* Unsigned integers of any width: sequences of limbs, least significant    *)
(* first.                                                                  *)

Base == 2^15

Max2(x, y) == IF x >= y THEN x ELSE y

RECURSIVE BNTrim(_)
BNTrim(a) ==
    IF a = <<>> THEN a
    ELSE IF a[Len(a)] = 0 THEN BNTrim(SubSeq(a, 1, Len(a) - 1))
    ELSE a

\* a non-negative TLC integer (< 2^31) as a BN
BNFromInt(k) ==
    BNTrim(<<k % Base, (k \div Base) % Base, k \div (Base * Base)>>)

Limb(a, i) == IF i <= Len(a) THEN a[i] ELSE 0

\* a BN below 2^31 as a TLC integer
BNToInt(a) == Limb(a, 1) + Base * Limb(a, 2) + Base * Base * Limb(a, 3)

BNOne == <<1>>

RECURSIVE BNAddC(_, _, _, _)
BNAddC(a, b, i, c) ==
    IF i > Max2(Len(a), Len(b))
    THEN (IF c = 0 THEN <<>> ELSE <<c>>)
    ELSE LET s == Limb(a, i) + Limb(b, i) + c
         IN  <<s % Base>> \o BNAddC(a, b, i + 1, s \div Base)

BNAdd(a, b) == BNAddC(a, b, 1, 0)

RECURSIVE BNCmpAt(_, _, _)
BNCmpAt(a, b, i) ==
    IF i = 0 THEN 0
    ELSE IF a[i] < b[i] THEN -1
    ELSE IF a[i] > b[i] THEN 1
    ELSE BNCmpAt(a, b, i - 1)

\* -1, 0, 1 as a < b, a = b, a > b
BNCmp(a, b) ==
    IF Len(a) < Len(b) THEN -1
    ELSE IF Len(a) > Len(b) THEN 1
    ELSE BNCmpAt(a, b, Len(a))

BNLt(a, b) == BNCmp(a, b) < 0
BNLe(a, b) == BNCmp(a, b) <= 0
BNGt(a, b) == BNCmp(a, b) > 0
BNGe(a, b) == BNCmp(a, b) >= 0

RECURSIVE BNSubB(_, _, _, _)
BNSubB(a, b, i, borrow) ==
    IF i > Len(a) THEN <<>>
    ELSE LET d == a[i] - Limb(b, i) - borrow
         IN  IF d < 0
             THEN <<d + Base>> \o BNSubB(a, b, i + 1, 1)
             ELSE <<d>> \o BNSubB(a, b, i + 1, 0)

\* a - b for a >= b
BNSub(a, b) == BNTrim(BNSubB(a, b, 1, 0))

RECURSIVE BNMulSmallC(_, _, _, _)
BNMulSmallC(a, k, i, c) ==
    IF i > Len(a)
    THEN (IF c = 0 THEN <<>> ELSE <<c>>)
    ELSE LET s == a[i] * k + c
         IN  <<s % Base>> \o BNMulSmallC(a, k, i + 1, s \div Base)

\* a * k for 0 <= k < Base
BNMulSmall(a, k) == IF k = 0 THEN <<>> ELSE BNMulSmallC(a, k, 1, 0)

\* a * Base^n
BNShlLimbs(a, n) == IF a = <<>> THEN a ELSE [i \in 1..n |-> 0] \o a

RECURSIVE BNMulAt(_, _, _)
BNMulAt(a, b, j) ==
    IF j > Len(b) THEN <<>>
    ELSE BNAdd(BNShlLimbs(BNMulSmall(a, b[j]), j - 1), BNMulAt(a, b, j + 1))

BNMul(a, b) == BNMulAt(a, b, 1)

\* [q, r]: quotient and remainder of a by 0 < d < Base, from limb i down
RECURSIVE BNDivSmallAt(_, _, _, _)
BNDivSmallAt(a, d, i, r) ==
    IF i = 0 THEN [q |-> <<>>, r |-> r]
    ELSE LET cur == r * Base + a[i]
             rest == BNDivSmallAt(a, d, i - 1, cur % d)
         IN  [q |-> rest.q \o <<cur \div d>>, r |-> rest.r]

BNDivSmall(a, d) ==
    LET x == BNDivSmallAt(a, d, Len(a), 0)
    IN  [q |-> BNTrim(x.q), r |-> x.r]

\* a * 2^k
BNShl(a, k) == BNShlLimbs(BNMulSmall(a, 2^(k % 15)), k \div 15)

\* floor(a / 2^k)
BNShr(a, k) ==
    IF k \div 15 >= Len(a) THEN <<>>
    ELSE BNDivSmall(SubSeq(a, (k \div 15) + 1, Len(a)), 2^(k % 15)).q

\* a mod 2^k
BNLow(a, k) ==
    LET n == k \div 15
        whole == SubSeq(a, 1, IF n < Len(a) THEN n ELSE Len(a))
    IN  IF n >= Len(a) THEN a
        ELSE BNTrim(whole \o <<a[n + 1] % 2^(k % 15)>>)

RECURSIVE IntBitLen(_)
IntBitLen(x) == IF x = 0 THEN 0 ELSE 1 + IntBitLen(x \div 2)

\* number of significant bits of a
BNBitLen(a) == IF a = <<>> THEN 0 ELSE 15 * (Len(a) - 1) + IntBitLen(a[Len(a)])

\* a is odd
BNOdd(a) == a # <<>> /\ a[1] % 2 = 1

\* the largest d in lo..hi with d * b <= r (lo * b <= r is given)
RECURSIVE BNQuotDigit(_, _, _, _)
BNQuotDigit(r, b, lo, hi) ==
    IF lo = hi THEN lo
    ELSE LET mid == (lo + hi + 1) \div 2
         IN  IF BNLe(BNMulSmall(b, mid), r)
             THEN BNQuotDigit(r, b, mid, hi)
             ELSE BNQuotDigit(r, b, lo, mid - 1)

\* schoolbook long division of a by b, one limb of a at a time from the
\* most significant: st.i limbs are left, st.q is the quotient so far and
\* st.r < b the running remainder
RECURSIVE BNDivModAt(_, _, _)
BNDivModAt(a, b, st) ==
    IF st.i = 0 THEN st
    ELSE LET cur == BNAdd(BNShlLimbs(st.r, 1), BNFromInt(a[st.i]))
             d == IF BNLt(cur, b) THEN 0 ELSE BNQuotDigit(cur, b, 1, Base - 1)
         IN  BNDivModAt(a, b, [i |-> st.i - 1, q |-> <<d>> \o st.q,
                               r |-> BNSub(cur, BNMulSmall(b, d))])

\* [q, r] with a = q * b + r, 0 <= r < b, for b > 0
BNDivModLong(a, b) ==
    LET x == BNDivModAt(a, b, [i |-> Len(a), q |-> <<>>, r |-> <<>>])
    IN  [q |-> BNTrim(x.q), r |-> x.r]

BNDivModShort(a, d) ==
    LET x == BNDivSmall(a, d) IN [q |-> x.q, r |-> BNFromInt(x.r)]

BNDivMod(a, b) ==
    IF Len(b) = 1 THEN BNDivModShort(a, b[1])
    ELSE IF BNLt(a, b) THEN [q |-> <<>>, r |-> a]
    ELSE BNDivModLong(a, b)

----------------------------------------------------------------------------
(* float64: [neg, m, e] is (-1)^neg * m * 2^e with 2^52 <= m < 2^53, zero   *)
(* is m = <<>>, e = 0.  The weights and intermediate values of New stay    *)
(* well inside the normal range, so subnormals, infinities and NaN do not  *)
(* arise and are not represented.                                          *)

MantBits == 53

F64Zero == [neg |-> FALSE, m |-> <<>>, e |-> 0]

\* the float64 nearest to (-1)^neg * m * 2^e, ties to even
F64Round(neg, m, e) ==
    IF m = <<>> THEN F64Zero
    ELSE LET len == BNBitLen(m)
         IN  IF len <= MantBits
             THEN [neg |-> neg, m |-> BNShl(m, MantBits - len),
                   e |-> e - (MantBits - len)]
             ELSE LET s == len - MantBits
                      q == BNShr(m, s)
                      c == BNCmp(BNLow(m, s), BNShl(BNOne, s - 1))
                      q1 == IF c > 0 \/ (c = 0 /\ BNOdd(q))
                            THEN BNAdd(q, BNOne) ELSE q
                  IN  IF BNBitLen(q1) > MantBits
                      THEN [neg |-> neg, m |-> BNShr(q1, 1), e |-> e + s + 1]
                      ELSE [neg |-> neg, m |-> q1, e |-> e + s]

\* float64(k) for a TLC integer k
F64FromInt(k) == F64Round(k < 0, BNFromInt(IF k < 0 THEN -k ELSE k), 0)

\* -1, 0, 1 comparing magnitudes
F64MagCmp(a, b) ==
    IF a.m = <<>> \/ b.m = <<>>
    THEN (IF a.m = b.m THEN 0 ELSE IF a.m = <<>> THEN -1 ELSE 1)
    ELSE IF a.e < b.e THEN -1
    ELSE IF a.e > b.e THEN 1
    ELSE BNCmp(a.m, b.m)

\* -1, 0, 1 as a < b, a == b, a > b
F64Cmp(a, b) ==
    LET an == a.neg /\ a.m # <<>>
        bn == b.neg /\ b.m # <<>>
    IN  IF an /\ ~bn THEN -1
        ELSE IF ~an /\ bn THEN 1
        ELSE IF an THEN -F64MagCmp(a, b)
        ELSE F64MagCmp(a, b)

F64Ge(a, b) == F64Cmp(a, b) >= 0
F64Lt(a, b) == F64Cmp(a, b) < 0
F64Le(a, b) == F64Cmp(a, b) <= 0

F64Neg(a) == [a EXCEPT !.neg = ~a.neg]

\* a + b
F64Add(a, b) ==
    IF a.m = <<>> THEN b
    ELSE IF b.m = <<>> THEN a
    ELSE LET e == IF a.e < b.e THEN a.e ELSE b.e
             am == BNShl(a.m, a.e - e)
             bm == BNShl(b.m, b.e - e)
         IN  IF a.neg = b.neg THEN F64Round(a.neg, BNAdd(am, bm), e)
             ELSE IF BNGe(am, bm) THEN F64Round(a.neg, BNSub(am, bm), e)
             ELSE F64Round(b.neg, BNSub(bm, am), e)

\* a - b
F64Sub(a, b) == F64Add(a, F64Neg(b))

\* a * b
F64Mul(a, b) == F64Round(a.neg # b.neg, BNMul(a.m, b.m), a.e + b.e)

\* a / b for b # 0: the quotient carried to 57 bits, its last bit made
\* sticky by the remainder, then rounded
F64Div(a, b) ==
    LET x == BNDivMod(BNShl(a.m, 56), b.m)
        sticky == IF x.r = <<>> THEN <<>> ELSE BNOne
    IN  F64Round(a.neg # b.neg, BNAdd(BNMulSmall(x.q, 2), sticky),
                 a.e - b.e - 57)

\* uint32(f) for 0 <= f < 2^32: the fraction is discarded
F64ToUint32(f) ==
    IF f.m = <<>> THEN <<>>
    ELSE IF f.e >= 0 THEN BNShl(f.m, f.e)
    ELSE BNShr(f.m, -f.e)

----------------------------------------------------------------------------
(* Go's fixed-width unsigned arithmetic                                     *)

Two31 == BNShl(BNOne, 31)
Two32 == BNShl(BNOne, 32)
Two64 == BNShl(BNOne, 64)

\* uint32(x), uint64(x): the low bits of x are kept
U32(x) == BNLow(x, 32)
U64(x) == BNLow(x, 64)

U32Add(a, b) == U32(BNAdd(a, b))
U32Sub(a, b) == IF BNGe(a, b) THEN BNSub(a, b) ELSE BNSub(BNAdd(a, Two32), b)
U64Add(a, b) == U64(BNAdd(a, b))
U64Sub(a, b) == IF BNGe(a, b) THEN BNSub(a, b) ELSE BNSub(BNAdd(a, Two64), b)
U64Mul(a, b) == U64(BNMul(a, b))

\* uint32(p) and uint64(p) of an int32 p: two's complement
U32FromInt32(p) ==
    IF p >= 0 THEN BNFromInt(p)
    ELSE BNSub(Two32, BNAdd(BNFromInt(-(p + 1)), BNOne))
U64FromInt32(p) ==
    IF p >= 0 THEN BNFromInt(p)
    ELSE BNSub(Two64, BNAdd(BNFromInt(-(p + 1)), BNOne))

\* int32(x) of an unsigned x: the low 32 bits read as two's complement
Int32FromU(x) ==
    IF BNLt(U32(x), Two31) THEN BNToInt(U32(x))
    ELSE -BNToInt(BNSub(BNSub(Two32, U32(x)), BNOne)) - 1

----------------------------------------------------------------------------
(* type Alias, ipiece, fpiece                                               *)

\* the zero value Alias{}
ZeroAlias ==
    [table |-> <<>>, maxRi |-> <<>>, maxRj |-> <<>>, avgP |-> <<>>,
     dummy |-> <<>>]

\* make([]ipiece, n), make([]fpiece, n)
MakeIPieces(n) == [i \in 1..n |-> [prob |-> <<>>, alias |-> <<>>]]
MakeFPieces(n) == [i \in 1..n |-> [prob |-> F64Zero, alias |-> <<>>]]

\* RetErr with "return &al, err" for "return nil, err": the error comes with
\* a non-nil *Alias
RetErrKeep(msg) == [nil |-> FALSE, al |-> ZeroAlias, err |-> msg, panic |-> ""]

\* what a builder hands back: (nil, err), (&al, nil), or a panic
RetErr(msg) == [nil |-> TRUE, al |-> ZeroAlias, err |-> msg, panic |-> ""]
RetOk(al) == [nil |-> FALSE, al |-> al, err |-> "nil", panic |-> ""]
RetPanic(msg) == [nil |-> TRUE, al |-> ZeroAlias, err |-> "nil", panic |-> msg]

DivideByZero == "runtime error: integer divide by zero"

\* calcMax without "- (1<<31)%uint32(n)": every raw value is within the
\* bound
calcMaxAll(n) ==
    IF n = <<>> THEN [panic |-> TRUE, v |-> <<>>]
    ELSE [panic |-> FALSE, v |-> BNSub(Two31, BNOne)]

\* calcMax(n): [panic, v]; the remainder by n = 0 is a run-time panic
calcMax(n) ==
    IF n = <<>> THEN [panic |-> TRUE, v |-> <<>>]
    ELSE [panic |-> FALSE,
          v |-> BNSub(BNSub(Two31, BNOne), BNDivMod(U32(Two31), U32(n)).r)]

\* checkAvgP: TRUE when a piece with prob = al.avgP - 1 exists (no panic)
checkAvgP(al) ==
    \E i \in 1..Len(al.table) : al.table[i].prob = U32Sub(al.avgP, BNOne)

----------------------------------------------------------------------------
(* New                                                                      *)

F64One == F64FromInt(1)

\* the constant 1<<31 - 1 as uint32 and as float64
MaxProb == BNSub(Two31, BNOne)
F64MaxProb == F64Round(FALSE, MaxProb, 0)

\* the validation and summing loop over prob[i..]
RECURSIVE SumFloat(_, _, _)
SumFloat(prob, i, total) ==
    IF i > Len(prob) THEN [ok |-> TRUE, total |-> total]
    ELSE IF F64Le(prob[i], F64Zero) THEN [ok |-> FALSE, total |-> total]
    ELSE SumFloat(prob, i + 1, F64Add(total, prob[i]))

\* the partition loop from index i (0-based) on; st = [twins, smTop, lgBot]
RECURSIVE PartitionFloat(_, _, _, _)
PartitionFloat(prob, mult, i, st) ==
    IF i >= Len(prob) THEN st
    ELSE LET p == F64Mul(prob[i + 1], mult)
         IN  IF F64Ge(p, F64One)
             THEN PartitionFloat(prob, mult, i + 1,
                    [twins |-> [st.twins EXCEPT ![st.lgBot] =
                                   [prob |-> p, alias |-> BNFromInt(i)]],
                     smTop |-> st.smTop, lgBot |-> st.lgBot - 1])
             ELSE PartitionFloat(prob, mult, i + 1,
                    [twins |-> [st.twins EXCEPT ![st.smTop + 2] =
                                   [prob |-> p, alias |-> BNFromInt(i)]],
                     smTop |-> st.smTop + 1, lgBot |-> st.lgBot])

\* the pairing loop; st = [twins, smTop, lgBot, table]
RECURSIVE PairFloat(_, _)
PairFloat(n, st) ==
    IF ~(st.smTop >= 0 /\ st.lgBot < n) THEN st
    ELSE LET l == st.twins[st.smTop + 1]
             smTop == st.smTop - 1
             g == st.twins[st.lgBot + 1]
             lgBot == st.lgBot + 1
             table == [st.table EXCEPT ![BNToInt(l.alias) + 1] =
                         [prob |-> F64ToUint32(F64Mul(l.prob, F64MaxProb)),
                          alias |-> g.alias]]
             g2 == [g EXCEPT !.prob = F64Sub(F64Add(g.prob, l.prob), F64One)]
         IN  IF F64Lt(g2.prob, F64One)
             THEN PairFloat(n, [twins |-> [st.twins EXCEPT ![smTop + 2] = g2],
                                smTop |-> smTop + 1, lgBot |-> lgBot,
                                table |-> table])
             ELSE PairFloat(n, [twins |-> [st.twins EXCEPT ![lgBot] = g2],
                                smTop |-> smTop, lgBot |-> lgBot - 1,
                                table |-> table])

\* for i := hi; i >= lo; i-- { table[twins[i].alias].prob = v }
RECURSIVE ClearDown(_, _, _, _, _)
ClearDown(table, twins, hi, lo, v) ==
    IF hi < lo THEN table
    ELSE ClearDown([table EXCEPT ![BNToInt(twins[hi + 1].alias) + 1].prob = v],
                   twins, hi - 1, lo, v)

\* for i := lo; i <= hi; i++ { table[twins[i].alias].prob = v }
RECURSIVE ClearUp(_, _, _, _, _)
ClearUp(table, twins, lo, hi, v) ==
    IF lo > hi THEN table
    ELSE ClearUp([table EXCEPT ![BNToInt(twins[lo + 1].alias) + 1].prob = v],
                 twins, lo + 1, hi, v)

NoPieceFound == "Internal error: no piece with prob = al.avgP-1 found."

\* the end of both builders: the rejection bounds mi = calcMax(len) and
\* mj = calcMax(avgP) are stored, checkAvgP runs and &al is returned
Finish(al, mi, mj) ==
    IF mi.panic \/ mj.panic THEN RetPanic(DivideByZero)
    ELSE IF ~checkAvgP([al EXCEPT !.maxRi = mi.v, !.maxRj = mj.v])
    THEN RetPanic(NoPieceFound)
    ELSE RetOk([al EXCEPT !.maxRi = mi.v, !.maxRj = mj.v])

\* New from the clearing loops on, table being al.table after them
NewCleared(table) ==
    Finish([table |-> table, maxRi |-> <<>>, maxRj |-> <<>>, avgP |-> Two31,
            dummy |-> U32(BNFromInt(Len(table)))],
           calcMax(U32(BNFromInt(Len(table)))), calcMax(Two31))

\* New after the pairing loop ended in fin
NewPaired(n, fin) ==
    NewCleared(ClearUp(ClearDown(fin.table, fin.twins, n - 1, fin.lgBot,
                                 MaxProb),
                       fin.twins, 0, fin.smTop, MaxProb))

\* New after the partition loop ended in part
NewPartitioned(n, part) ==
    IF part.lgBot # part.smTop + 1 THEN RetPanic("alias.New: internal error")
    ELSE NewPaired(n, PairFloat(n, [twins |-> part.twins,
                                    smTop |-> part.smTop,
                                    lgBot |-> part.lgBot,
                                    table |-> MakeIPieces(n)]))

\* New after the summing loop ended in sum
NewSummed(prob, sum) ==
    IF ~sum.ok THEN RetErr("a probability is non-positive")
    ELSE NewPartitioned(Len(prob),
           PartitionFloat(prob, F64Div(F64FromInt(Len(prob)), sum.total), 0,
                          [twins |-> MakeFPieces(Len(prob)), smTop |-> -1,
                           lgBot |-> Len(prob)]))

\* New(prob) for a sequence of float64
New(prob) ==
    IF Len(prob) < 1 THEN RetErr("too few probabilities")
    ELSE IF BNToInt(U32(BNFromInt(Len(prob)))) # Len(prob)
    THEN RetErr("too many probabilities")
    ELSE NewSummed(prob, SumFloat(prob, 1, F64Zero))

----------------------------------------------------------------------------
(* NewInt                                                                   *)

\* the validation and summing loop over prob[i..]; total is a uint64
RECURSIVE SumInt(_, _, _)
SumInt(prob, i, total) ==
    IF i > Len(prob) THEN [ok |-> TRUE, total |-> total]
    ELSE IF prob[i] <= 0 THEN [ok |-> FALSE, total |-> total]
    ELSE SumInt(prob, i + 1, U64Add(total, U64FromInt32(prob[i])))

\* PadInt with "uint64(avg)*uint64(n) <= total" for "<": the dummy is added
\* to a total that n divides as well
PadIntLe(prob, n, total) ==
    LET avg == U32(BNDivMod(total, BNFromInt(n)).q)
    IN  IF BNLe(U64Mul(avg, BNFromInt(n)), total)
        THEN LET avg2 == U32Add(avg, BNOne)
                 n2 == n + 1
                 dummy == U64Sub(U64Mul(avg2, BNFromInt(n2)), total)
             IN  [avg |-> avg2, n |-> n2, total |-> U64Add(total, dummy),
                  prob |-> Append(prob, Int32FromU(dummy))]
        ELSE [avg |-> avg, n |-> n, total |-> total, prob |-> prob]

\* the padding step: [avg, n, total, prob] after "if uint64(avg)*uint64(n) <
\* total { ... }"
PadInt(prob, n, total) ==
    LET avg == U32(BNDivMod(total, BNFromInt(n)).q)
    IN  IF BNLt(U64Mul(avg, BNFromInt(n)), total)
        THEN LET avg2 == U32Add(avg, BNOne)
                 n2 == n + 1
                 dummy == U64Sub(U64Mul(avg2, BNFromInt(n2)), total)
             IN  [avg |-> avg2, n |-> n2, total |-> U64Add(total, dummy),
                  prob |-> Append(prob, Int32FromU(dummy))]
        ELSE [avg |-> avg, n |-> n, total |-> total, prob |-> prob]

\* PartitionInt with "uint32(p) > avg" for ">=": a weight equal to avg is
\* pushed on the small stack
RECURSIVE PartitionIntGt(_, _, _, _)
PartitionIntGt(prob, avg, i, st) ==
    IF i >= Len(prob) THEN st
    ELSE LET p == U32FromInt32(prob[i + 1])
         IN  IF BNGt(p, avg)
             THEN PartitionIntGt(prob, avg, i + 1,
                    [twins |-> [st.twins EXCEPT ![st.lgBot] =
                                   [prob |-> p, alias |-> BNFromInt(i)]],
                     smTop |-> st.smTop, lgBot |-> st.lgBot - 1])
             ELSE PartitionIntGt(prob, avg, i + 1,
                    [twins |-> [st.twins EXCEPT ![st.smTop + 2] =
                                   [prob |-> p, alias |-> BNFromInt(i)]],
                     smTop |-> st.smTop + 1, lgBot |-> st.lgBot])

\* the partition loop from index i (0-based) on; st = [twins, smTop, lgBot]
RECURSIVE PartitionInt(_, _, _, _)
PartitionInt(prob, avg, i, st) ==
    IF i >= Len(prob) THEN st
    ELSE LET p == U32FromInt32(prob[i + 1])
         IN  IF BNGe(p, avg)
             THEN PartitionInt(prob, avg, i + 1,
                    [twins |-> [st.twins EXCEPT ![st.lgBot] =
                                   [prob |-> p, alias |-> BNFromInt(i)]],
                     smTop |-> st.smTop, lgBot |-> st.lgBot - 1])
             ELSE PartitionInt(prob, avg, i + 1,
                    [twins |-> [st.twins EXCEPT ![st.smTop + 2] =
                                   [prob |-> p, alias |-> BNFromInt(i)]],
                     smTop |-> st.smTop + 1, lgBot |-> st.lgBot])

\* PairIntStep with "al.table[l.alias].prob = g.prob - 1" for "l.prob - 1":
\* the small block's slot gets the large block's mass as its threshold
PairIntStepLarge(avg, st) ==
    LET l == st.twins[st.smTop + 1]
        smTop == st.smTop - 1
        g == st.twins[st.lgBot + 1]
        lgBot == st.lgBot + 1
        table == [st.table EXCEPT ![BNToInt(l.alias) + 1] =
                    [prob |-> U32Sub(g.prob, BNOne), alias |-> g.alias]]
        g2 == [g EXCEPT !.prob = U32Sub(U32Add(g.prob, l.prob), avg)]
    IN  IF BNLt(g2.prob, avg)
        THEN [twins |-> [st.twins EXCEPT ![smTop + 2] = g2],
              smTop |-> smTop + 1, lgBot |-> lgBot, table |-> table]
        ELSE [twins |-> [st.twins EXCEPT ![lgBot] = g2],
              smTop |-> smTop, lgBot |-> lgBot - 1, table |-> table]

\* one iteration of the pairing loop (its body, lines 228-244) on
\* st = [twins, smTop, lgBot, table]
PairIntStep(avg, st) ==
    LET l == st.twins[st.smTop + 1]
        smTop == st.smTop - 1
        g == st.twins[st.lgBot + 1]
        lgBot == st.lgBot + 1
        table == [st.table EXCEPT ![BNToInt(l.alias) + 1] =
                    [prob |-> U32Sub(l.prob, BNOne), alias |-> g.alias]]
        g2 == [g EXCEPT !.prob = U32Sub(U32Add(g.prob, l.prob), avg)]
    IN  IF BNLt(g2.prob, avg)
        THEN [twins |-> [st.twins EXCEPT ![smTop + 2] = g2],
              smTop |-> smTop + 1, lgBot |-> lgBot, table |-> table]
        ELSE [twins |-> [st.twins EXCEPT ![lgBot] = g2],
              smTop |-> smTop, lgBot |-> lgBot - 1, table |-> table]

\* the pairing loop: for smTop >= 0 && lgBot < n { ... }
RECURSIVE PairInt(_, _, _)
PairInt(n, avg, st) ==
    IF ~(st.smTop >= 0 /\ st.lgBot < n) THEN st
    ELSE PairInt(n, avg, PairIntStep(avg, st))

\* NewInt after the pairing loop ended in fin; n0 is the caller's len(prob)
NewIntPaired(n0, n, avg, fin) ==
    IF fin.smTop # -1 THEN RetPanic("alias.NewInt: internal error")
    ELSE Finish([table |-> ClearDown(fin.table, fin.twins, n - 1, fin.lgBot,
                                     U32Sub(avg, BNOne)),
                 maxRi |-> <<>>, maxRj |-> <<>>, avgP |-> avg,
                 dummy |-> U32(BNFromInt(n0))],
                calcMax(U32(BNFromInt(n))), calcMax(avg))

\* NewInt after the partition loop ended in part
NewIntPartitioned(n0, n, avg, part) ==
    IF part.lgBot # part.smTop + 1 THEN RetPanic("alias.New: internal error")
    ELSE NewIntPaired(n0, n, avg,
           PairInt(n, avg, [twins |-> part.twins, smTop |-> part.smTop,
                            lgBot |-> part.lgBot, table |-> MakeIPieces(n)]))

\* NewInt after the padding step gave pad
NewIntPadded(n0, pad) ==
    NewIntPartitioned(n0, pad.n, pad.avg,
       PartitionInt(pad.prob, pad.avg, 0,
                    [twins |-> MakeIPieces(pad.n), smTop |-> -1,
                     lgBot |-> pad.n]))

\* NewInt after the summing loop ended in sum
NewIntSummed(prob, sum) ==
    IF ~sum.ok THEN RetErr("a probability is non-positive")
    ELSE NewIntPadded(Len(prob), PadInt(prob, Len(prob), sum.total))

\* NewInt(prob) for a sequence of int32
NewInt(prob) ==
    IF Len(prob) < 1 THEN RetErr("too few probabilities")
    ELSE IF BNToInt(U32(BNFromInt(Len(prob)))) # Len(prob)
    THEN RetErr("too many probabilities")
    ELSE NewIntSummed(prob, SumInt(prob, 1, <<>>))

----------------------------------------------------------------------------
(* Gen                                                                      *)

\* Resolve with "x >= al.table[w].prob" for ">": the threshold pick that
\* equals the threshold is sent to the alias
ResolveGe(al, w, x) ==
    IF BNGe(x, al.table[w + 1].prob) THEN al.table[w + 1].alias
    ELSE BNFromInt(w)

\* lines 277-279: the outcome of slot w under threshold pick x (w a TLC
\* integer index, x a uint32); the result is a uint32
Resolve(al, w, x) ==
    IF BNGt(x, al.table[w + 1].prob) THEN al.table[w + 1].alias
    ELSE BNFromInt(w)

\* lines 280-283 on the resolved w: "goto begin" when w is the dummy
GenReturn(al, w) == [again |-> w = al.dummy, w |-> w, panic |-> ""]

\* GenPass without lines 280-282: a draw that resolves to al.dummy is
\* returned like any other
GenPassNoDummy(al, ri, rj) ==
        IF BNGt(ri, al.maxRi) \/ BNGt(rj, al.maxRj)
        THEN [again |-> TRUE, w |-> <<>>, panic |-> ""]
        ELSE IF Len(al.table) = 0 \/ al.avgP = <<>>
        THEN [again |-> FALSE, w |-> <<>>, panic |-> DivideByZero]
        ELSE [again |-> FALSE,
              w |-> Resolve(al,
                      BNToInt(BNDivMod(ri, U32(BNFromInt(Len(al.table)))).r),
                      BNDivMod(rj, al.avgP).r),
              panic |-> ""]

\* GenPass with the test of line 272 inverted: the draws within the
\* rejection bounds are the ones discarded
GenPassInverted(al, ri, rj) ==
        IF BNLe(ri, al.maxRi) \/ BNLe(rj, al.maxRj)
        THEN [again |-> TRUE, w |-> <<>>, panic |-> ""]
        ELSE IF Len(al.table) = 0 \/ al.avgP = <<>>
        THEN [again |-> FALSE, w |-> <<>>, panic |-> DivideByZero]
        ELSE GenReturn(al,
                 Resolve(al,
                   BNToInt(BNDivMod(ri, U32(BNFromInt(Len(al.table)))).r),
                   BNDivMod(rj, al.avgP).r))

\* GenLeaves with a store to the receiver: the pass keeps its slot pick
\* source in al.maxRi
GenStoresDraw(al, ri, rj) == [al EXCEPT !.maxRi = ri]

\* the receiver after one pass of Gen (lines 268-283) on ri and rj: no
\* statement of Gen assigns to a field of al or to a slot of al.table
GenLeaves(al, ri, rj) == al

\* the receiver after MarshalBinary (lines 287-300): it only reads al
MarshalLeaves(al) == al

\* lines 269-271: ri and rj, the two 31-bit halves of r = rng.Int63()
SplitInt63(r) ==
    [ri |-> U32(BNLow(r, 31)), rj |-> U32(BNLow(BNShr(r, 31), 31))]

\* the rest of one pass (lines 272-283) on ri and rj: [again, w, panic],
\* again for "goto begin", w the value returned otherwise
GenPass(al, ri, rj) ==
        IF BNGt(ri, al.maxRi) \/ BNGt(rj, al.maxRj)
        THEN [again |-> TRUE, w |-> <<>>, panic |-> ""]
        ELSE IF Len(al.table) = 0 \/ al.avgP = <<>>
        THEN [again |-> FALSE, w |-> <<>>, panic |-> DivideByZero]
        ELSE GenReturn(al,
                 Resolve(al,
                   BNToInt(BNDivMod(ri, U32(BNFromInt(Len(al.table)))).r),
                   BNDivMod(rj, al.avgP).r))

----------------------------------------------------------------------------
(* MarshalBinary, UnmarshalBinary                                           *)

\* PutUint32 in big-endian byte order
PutUint32BE(v) ==
    [k \in 1..4 |-> BNToInt(BNLow(BNShr(v, 8 * (4 - k)), 8))]

\* binary.LittleEndian.PutUint32 and Uint32 over 4 bytes
PutUint32(v) ==
    [k \in 1..4 |-> BNToInt(BNLow(BNShr(v, 8 * (k - 1)), 8))]
Uint32(b) ==
    BNAdd(BNFromInt(b[1] + 256 * b[2] + 65536 * b[3]),
          BNShl(BNFromInt(b[4]), 24))

RECURSIVE MarshalPieces(_, _)
MarshalPieces(table, i) ==
    IF i > Len(table) THEN <<>>
    ELSE PutUint32(table[i].prob) \o PutUint32(table[i].alias)
         \o MarshalPieces(table, i + 1)

\* MarshalBinary without lines 294-298: the dummy index is never appended
MarshalBinaryNoDummy(al) ==
    [out |-> MarshalPieces(al.table, 1), err |-> "nil"]

\* MarshalBinary: [out, err]
MarshalBinary(al) ==
    LET out == MarshalPieces(al.table, 1)
    IN  IF al.dummy # U32(BNFromInt(Len(al.table)))
        THEN [out |-> out \o PutUint32(al.dummy), err |-> "nil"]
        ELSE [out |-> out, err |-> "nil"]

\* PieceError with "alias > uint32(len(al.table))" for ">=": an alias equal
\* to the slot count passes
PieceErrorGt(prob, alias, n) ==
    IF BNGe(prob, Two31) THEN "bad data: probability out of range"
    ELSE IF BNGt(alias, U32(BNFromInt(n)))
    THEN "bad data: alias target out of range"
    ELSE "nil"

\* the two range checks on one record (lines 318-323), n = len(al.table):
\* the error returned, "nil" when the record passes
PieceError(prob, alias, n) ==
    IF BNGe(prob, Two31) THEN "bad data: probability out of range"
    ELSE IF BNGe(alias, U32(BNFromInt(n)))
    THEN "bad data: alias target out of range"
    ELSE "nil"

\* the record loop of UnmarshalBinary from record i (0-based) on:
\* [table, err]
RECURSIVE UnmarshalPieces(_, _, _)
UnmarshalPieces(p, table, i) ==
    IF i >= Len(table) THEN [table |-> table, err |-> "nil"]
    ELSE LET bin == SubSeq(p, i * 8 + 1, 8 + i * 8)
             prob == Uint32(SubSeq(bin, 1, 4))
             alias == Uint32(SubSeq(bin, 5, 8))
             e == PieceError(prob, alias, Len(table))
         IN  IF e # "nil" THEN [table |-> table, err |-> e]
             ELSE UnmarshalPieces(p,
                    [table EXCEPT ![i + 1] = [prob |-> prob, alias |-> alias]],
                    i + 1)

RECURSIVE MaxProbOf(_, _, _)
MaxProbOf(table, i, maxProb) ==
    IF i > Len(table) THEN maxProb
    ELSE MaxProbOf(table, i + 1,
                   IF BNGt(table[i].prob, maxProb) THEN table[i].prob
                   ELSE maxProb)

\* lines 344-350: al.dummy is the slot count, or the trailing word of p
UnmarshalDummy(al, p) ==
    [al |-> [al EXCEPT !.dummy =
                IF Len(p) % 8 # 0 THEN Uint32(SubSeq(p, Len(p) - 3, Len(p)))
                ELSE U32(BNFromInt(Len(al.table)))],
     err |-> "nil", panic |-> ""]

\* line 342, mj the outcome of calcMax(al.avgP)
UnmarshalMaxRj(al, p, mj) ==
    IF mj.panic THEN [al |-> al, err |-> "nil", panic |-> DivideByZero]
    ELSE UnmarshalDummy([al EXCEPT !.maxRj = mj.v], p)

\* line 341, mi the outcome of calcMax(uint32(len(al.table)))
UnmarshalMaxRi(al, p, mi) ==
    IF mi.panic THEN [al |-> al, err |-> "nil", panic |-> DivideByZero]
    ELSE UnmarshalMaxRj([al EXCEPT !.maxRi = mi.v], p, calcMax(al.avgP))

\* lines 333-339: al.avgP is the largest threshold plus one
UnmarshalAvgP(al, p, maxProb) ==
    UnmarshalMaxRi([al EXCEPT !.avgP = U32Add(maxProb, BNOne)], p,
                   calcMax(U32(BNFromInt(Len(al.table)))))

\* line 312 and the outcome got of the record loop: al.table is assigned
\* before any record is checked
UnmarshalTable(al, p, got) ==
    IF got.err # "nil"
    THEN [al |-> [al EXCEPT !.table = got.table], err |-> got.err,
          panic |-> ""]
    ELSE UnmarshalAvgP([al EXCEPT !.table = got.table], p,
                       MaxProbOf(got.table, 1, <<>>))

\* al.UnmarshalBinary(p): [al, err, panic], al the receiver afterwards
UnmarshalBinary(al, p) ==
    IF Len(p) % 4 # 0
    THEN [al |-> al, err |-> "bad data length", panic |-> ""]
    ELSE IF BNToInt(U32(BNFromInt(Len(p) \div 8))) # Len(p) \div 8
    THEN [al |-> al, err |-> "data too large", panic |-> ""]
    ELSE UnmarshalTable(al, p,
                        UnmarshalPieces(p, MakeIPieces(Len(p) \div 8), 0))

----------------------------------------------------------------------------
(* The program: a caller builds one table with New or NewInt, samples it    *)
(* with Gen, encodes it with MarshalBinary and decodes the bytes into a    *)
(* second Alias a2 (as TestMarshalBinary does); or it decodes an arbitrary *)
(* buffer into the fresh a2, samples the decoded table, or decodes a       *)
(* second buffer over it.  The caller is one goroutine: no call starts     *)
(* while Gen is inside its loop, and a panic ends the program.  Gen runs   *)
(* in two steps a pass: it draws r and splits it, then tests and resolves  *)
(* the halves; its locals are dead at "goto begin".                        *)

MaxN == 3
MaxWeight == 3
MaxBufLen == 20
MaxRaw == 3
MaxModulus == 40

VARIABLES
    pc,       \* "start", "built", "failed", "decoded", "overwritten"
    kind,     \* "none", "float" (New) or "int" (NewInt)
    weights,  \* the builder's argument
    al,       \* the Alias the builder returned (ZeroAlias when alnil)
    alnil,    \* the builder returned a nil *Alias
    err,      \* the builder's error, "nil" for nil, "none" before the call
    data,     \* the bytes last returned by MarshalBinary or last decoded
    merr,     \* MarshalBinary's error, "none" before the call
    a2,       \* the receiver of UnmarshalBinary
    uerr,     \* UnmarshalBinary's error, "none" before the call
    gen,      \* Gen's frame: [pc, ri, rj, ret]; pc is "idle", "begin",
              \* "drawn" or "returned"
    panic,    \* "" or the message of the panic that ended the program
    readers   \* the Gen frame [pc, ri, rj, ret] of each goroutine that
              \* samples the built table concurrently

vars == <<pc, kind, weights, al, alnil, err, data, merr, a2, uerr, gen, panic,
          readers>>

\* the weight vectors tried: every length up to MaxN, every weight from -1
\* (invalid) to MaxWeight
WeightVals == (-1)..MaxWeight
Vectors == UNION {[1..n -> WeightVals] : n \in 0..MaxN}

\* the raw 31-bit values tried for each half of rng.Int63(): the small
\* ones and the largest
RawVals == {BNFromInt(k) : k \in 0..MaxRaw} \cup {MaxProb}
RawDraws == {BNAdd(ri, BNShl(rj, 31)) : ri \in RawVals, rj \in RawVals}

\* the buffers decoded: every sequence of the 32-bit words 0, 1 and 2^31 up
\* to MaxBufLen bytes, and every zero buffer of a length that is no
\* multiple of 4
FuzzWords == {PutUint32(<<>>), PutUint32(BNOne), PutUint32(Two31)}
RECURSIVE Flatten(_)
Flatten(ws) == IF ws = <<>> THEN <<>> ELSE Head(ws) \o Flatten(Tail(ws))
Buffers ==
    {Flatten(ws) : ws \in UNION {[1..k -> FuzzWords] : k \in 0..(MaxBufLen \div 4)}}
    \cup {[i \in 1..n |-> 0] : n \in {m \in 1..MaxBufLen : m % 4 # 0}}

\* the goroutines that call Gen on the one shared table, each with its own
\* *rand.Rand
Readers == {"g1", "g2"}

\* the values of rng.Int63() a concurrent reader draws: every small ri and
\* the largest, with the smallest and the largest rj
ReaderDraws == {BNAdd(ri, BNShl(rj, 31)) : ri \in RawVals, rj \in {<<>>, MaxProb}}

GenIdle == [pc |-> "idle", ri |-> <<>>, rj |-> <<>>, ret |-> <<>>]
GenBegin == [pc |-> "begin", ri |-> <<>>, rj |-> <<>>, ret |-> <<>>]

Init ==
    /\ pc = "start"
    /\ kind = "none"
    /\ weights = <<>>
    /\ al = ZeroAlias
    /\ alnil = TRUE
    /\ err = "none"
    /\ data = <<>>
    /\ merr = "none"
    /\ a2 = ZeroAlias
    /\ uerr = "none"
    /\ gen = GenIdle
    /\ panic = ""
    /\ readers = [g \in Readers |-> GenIdle]

\* the caller's state after a builder returned r
Built(r, k, w) ==
    /\ kind' = k
    /\ weights' = w
    /\ al' = r.al
    /\ alnil' = r.nil
    /\ err' = r.err
    /\ panic' = r.panic
    /\ pc' = IF r.nil THEN "failed" ELSE "built"
    /\ UNCHANGED <<data, merr, a2, uerr, gen, readers>>

CallNew ==
    /\ pc = "start" /\ panic = ""
    /\ \E w \in Vectors :
          Built(New([i \in 1..Len(w) |-> F64FromInt(w[i])]), "float", w)

CallNewInt ==
    /\ pc = "start" /\ panic = ""
    /\ \E w \in Vectors : Built(NewInt(w), "int", w)

\* the table Gen samples: the built one, or the one decoded from a buffer
Sampled == IF pc = "built" THEN al ELSE a2

GenCall ==
    /\ panic = ""
    /\ pc = "built" \/ (pc = "decoded" /\ uerr = "nil")
    /\ gen.pc \in {"idle", "returned"}
    /\ gen' = GenBegin
    /\ UNCHANGED <<pc, kind, weights, al, alnil, err, data, merr, a2, uerr,
                   panic, readers>>

\* Gen at begin: rng.Int63() gives r, split into ri and rj
GenDraw(r) ==
    /\ panic = ""
    /\ gen.pc = "begin"
    /\ gen' = [pc |-> "drawn", ri |-> SplitInt63(r).ri, rj |-> SplitInt63(r).rj,
               ret |-> <<>>]
    /\ UNCHANGED <<pc, kind, weights, al, alnil, err, data, merr, a2, uerr,
                   panic, readers>>

\* Gen at begin does draw
GenDrawAny == \E r \in RawDraws : GenDraw(r)

\* Gen after the draw: the rejection tests, the resolve step, and either
\* "goto begin" or the return
GenResume(pass) ==
    /\ gen' = IF pass.panic # "" THEN gen
              ELSE IF pass.again THEN GenBegin
              ELSE [gen EXCEPT !.pc = "returned", !.ret = pass.w]
    /\ panic' = pass.panic

GenStep ==
    /\ panic = ""
    /\ gen.pc = "drawn"
    /\ GenResume(GenPass(Sampled, gen.ri, gen.rj))
    /\ UNCHANGED <<pc, kind, weights, al, alnil, err, data, merr, a2, uerr,
                   readers>>

\* the caller's state after MarshalBinary returned m
Marshalled(m) == data' = m.out /\ merr' = m.err

CallMarshalBinary ==
    /\ panic = ""
    /\ pc = "built"
    /\ gen.pc \in {"idle", "returned"}
    /\ Marshalled(MarshalBinary(al))
    /\ UNCHANGED <<pc, kind, weights, al, alnil, err, a2, uerr, gen, panic,
                   readers>>

\* the caller's state after UnmarshalBinary returned u
Decoded(u) == a2' = u.al /\ uerr' = u.err /\ panic' = u.panic

\* a2.UnmarshalBinary(p)
Decode(p) == Decoded(UnmarshalBinary(a2, p))

\* a2.UnmarshalBinary(data) with data the bytes MarshalBinary returned
CallUnmarshalBinary ==
    /\ panic = ""
    /\ pc = "built"
    /\ merr = "nil"
    /\ gen.pc \in {"idle", "returned"}
    /\ Decode(data)
    /\ UNCHANGED <<pc, kind, weights, al, alnil, err, data, merr, gen,
                   readers>>

\* a2.UnmarshalBinary(p) into the fresh a2
CallUnmarshalFresh ==
    /\ panic = ""
    /\ pc = "start"
    /\ \E p \in Buffers : Decode(p) /\ data' = p
    /\ pc' = "decoded"
    /\ UNCHANGED <<kind, weights, al, alnil, err, merr, gen, readers>>

\* a2.UnmarshalBinary(p) into the a2 that holds a decoded table
CallUnmarshalOver ==
    /\ panic = ""
    /\ pc = "decoded"
    /\ uerr = "nil"
    /\ gen.pc = "idle"
    /\ \E p \in Buffers : Decode(p) /\ data' = p
    /\ pc' = "overwritten"
    /\ UNCHANGED <<kind, weights, al, alnil, err, merr, gen, readers>>

Next ==
    \/ CallNew
    \/ CallNewInt
    \/ GenCall
    \/ GenDrawAny
    \/ GenStep
    \/ CallMarshalBinary
    \/ CallUnmarshalBinary
    \/ CallUnmarshalFresh
    \/ CallUnmarshalOver

Spec == Init /\ [][Next]_vars

\* the caller's goroutine keeps running and the random source is fair: Gen
\* at begin draws, and for as long as Gen is in its loop every raw pair
\* (ri, rj) comes up again and again
FairSpec ==
    /\ Spec
    /\ WF_vars(GenDrawAny)
    /\ \A ri \in RawVals : \A rj \in RawVals :
          []<>(\/ gen.pc \notin {"begin", "drawn"}
               \/ gen.pc = "drawn" /\ gen.ri = ri /\ gen.rj = rj)

\* one goroutine of Readers enters Gen on the shared table
ReaderCall(g) ==
    /\ panic = ""
    /\ pc = "built"
    /\ readers[g].pc \in {"idle", "returned"}
    /\ readers' = [readers EXCEPT ![g] = GenBegin]
    /\ UNCHANGED <<pc, kind, weights, al, alnil, err, data, merr, a2, uerr,
                   gen, panic>>

\* the frame of a reader, and the panic, after a pass on ri and rj gave pass
ReaderResume(g, ri, rj, pass) ==
    /\ readers' = [readers EXCEPT ![g] =
                     IF pass.panic # "" THEN @
                     ELSE IF pass.again THEN GenBegin
                     ELSE [pc |-> "returned", ri |-> ri, rj |-> rj,
                           ret |-> pass.w]]
    /\ panic' = pass.panic

\* one pass of Gen's loop by reader g: r drawn from g's own source, then
\* lines 270-283 on the shared table
ReaderPass(g, r) ==
    /\ panic = ""
    /\ pc = "built"
    /\ readers[g].pc = "begin"
    /\ ReaderResume(g, SplitInt63(r).ri, SplitInt63(r).rj,
                    GenPass(al, SplitInt63(r).ri, SplitInt63(r).rj))
    /\ al' = GenLeaves(al, SplitInt63(r).ri, SplitInt63(r).rj)
    /\ UNCHANGED <<pc, kind, weights, alnil, err, data, merr, a2, uerr, gen>>

\* a further goroutine encodes the shared table while the readers sample it
ReaderMarshal ==
    /\ panic = ""
    /\ pc = "built"
    /\ Marshalled(MarshalBinary(al))
    /\ al' = MarshalLeaves(al)
    /\ UNCHANGED <<pc, kind, weights, alnil, err, a2, uerr, gen, panic,
                   readers>>

ReaderCallAny == \E g \in Readers : ReaderCall(g)
ReaderPassAny == \E g \in Readers : \E r \in ReaderDraws : ReaderPass(g, r)

ConcNext ==
    \/ CallNew
    \/ CallNewInt
    \/ ReaderCallAny
    \/ ReaderPassAny
    \/ ReaderMarshal

\* a table is built, then goroutines sample and encode it concurrently
ConcSpec == Init /\ [][ConcNext]_vars

----------------------------------------------------------------------------
(* The properties                                                           *)

\* the weight vector is valid: non-empty, every weight strictly positive
ValidWeights(w) == Len(w) >= 1 /\ \A i \in 1..Len(w) : w[i] > 0

\* a builder returned a table
HaveTable == pc = "built" /\ ~alnil

\* C1: for every table t returned by New or NewInt on a valid weight
\* vector, UnmarshalBinary(MarshalBinary(t)) succeeds and yields a table
\* equal to t field for field: the same slots, avgP, maxRi, maxRj and dummy.
C1_RoundTrip ==
    (HaveTable /\ uerr # "none") =>
        /\ uerr = "nil"
        /\ panic = ""
        /\ a2.table = al.table
        /\ a2.avgP = al.avgP
        /\ a2.maxRi = al.maxRi
        /\ a2.maxRj = al.maxRj
        /\ a2.dummy = al.dummy

\* a padded NewInt table of four slots, decoded from its own 36 bytes
C1_Witness ==
    /\ HaveTable /\ uerr = "nil" /\ a2 = al
    /\ kind = "int"
    /\ Len(weights) = 3 /\ Len(al.table) = 4 /\ Len(data) = 36

\* the pairs (w, x), w a slot and x a threshold pick below avgP, that Gen's
\* resolve step maps to the outcome i
ResolvedTo(i) ==
    {wx \in (0..(Len(al.table) - 1)) \X (0..(BNToInt(al.avgP) - 1)) :
        Resolve(al, wx[1], BNFromInt(wx[2])) = BNFromInt(i)}

\* C2: the table NewInt builds from N >= 1 positive integer weights W is
\* exactly proportional to W: for each original outcome i the number of
\* pairs (w, x), w in [0, M), x in [0, avgP), that resolve to i is W[i], and
\* every remaining pair resolves to the dummy index.
C2_Proportional ==
    (HaveTable /\ kind = "int") =>
        /\ \A i \in 0..(Len(weights) - 1) :
              Cardinality(ResolvedTo(i)) = weights[i + 1]
        /\ \A w \in 0..(Len(al.table) - 1) :
              \A x \in 0..(BNToInt(al.avgP) - 1) :
                 \/ BNToInt(Resolve(al, w, BNFromInt(x))) \in 0..(Len(weights) - 1)
                 \/ Resolve(al, w, BNFromInt(x)) = al.dummy

\* a padded table of unequal weights, with pairs that resolve to the dummy
C2_Witness ==
    /\ HaveTable /\ kind = "int"
    /\ weights = <<1, 3, 1>>
    /\ Len(al.table) = 4
    /\ al.dummy = BNFromInt(3)
    /\ Cardinality(ResolvedTo(3)) = 3
    /\ Cardinality(ResolvedTo(1)) = 3

\* C3: whatever Gen returns on a table built from N valid weights is an
\* index in [0, N): never the dummy index, never an index >= N.
C3_GenInRange ==
    (HaveTable /\ gen.pc = "returned") =>
        /\ BNLt(gen.ret, BNFromInt(Len(weights)))
        /\ gen.ret # al.dummy

\* Gen returned on a draw whose slot is the padding slot, by its alias
C3_Witness ==
    /\ HaveTable /\ gen.pc = "returned"
    /\ Len(al.table) = Len(weights) + 1
    /\ BNDivMod(gen.ri, BNFromInt(Len(al.table))).r = al.dummy
    /\ BNLt(gen.ret, BNFromInt(Len(weights)))

\* C4: New and NewInt return an error and a nil *Alias for an empty weight
\* vector and for a vector with a weight <= 0 at any position; for a
\* non-empty vector of strictly positive weights they return a table and
\* no error.
C4_Validation ==
    (kind # "none") =>
        IF ValidWeights(weights)
        THEN ~alnil /\ err = "nil" /\ panic = "" /\ Len(al.table) >= Len(weights)
        ELSE alnil /\ err \notin {"nil", "none"} /\ panic = ""

\* a builder refused a vector whose only non-positive weight is the last
C4_Witness ==
    /\ pc = "failed" /\ alnil
    /\ err = "a probability is non-positive"
    /\ Len(weights) = 3
    /\ weights[1] > 0 /\ weights[2] > 0 /\ weights[3] = 0

\* record i (0-based) of the buffer p holds a threshold >= 2^31, read off
\* the bytes: the top bit of its fourth byte
BadThreshold(p, i) == p[8 * i + 4] >= 128

\* record i (0-based) of the buffer p holds an alias >= m, read off the bytes
BadAlias(p, i, m) ==
    \/ p[8 * i + 8] >= 128
    \/ p[8 * i + 5] + 256 * p[8 * i + 6] + 65536 * p[8 * i + 7]
          + 16777216 * p[8 * i + 8] >= m

\* C5: UnmarshalBinary returns an error for every buffer whose length is
\* not a multiple of 4, and for every buffer in which one of the first
\* M = floor(length/8) records has a threshold >= 2^31 or an alias >= M.
C5_Rejects ==
    (pc \in {"decoded", "overwritten"}
       /\ \/ Len(data) % 4 # 0
          \/ \E i \in 0..((Len(data) \div 8) - 1) :
                BadThreshold(data, i) \/ BadAlias(data, i, Len(data) \div 8))
    => (uerr \notin {"nil", "none"} /\ panic = "")

\* a buffer of two records and a trailing word, the first record good
\* with alias 1 and the second with an alias out of range, was refused
C5_Witness ==
    /\ pc = "decoded"
    /\ Len(data) = 20
    /\ ~BadThreshold(data, 0) /\ ~BadAlias(data, 0, 2) /\ data[5] = 1
    /\ ~BadThreshold(data, 1) /\ BadAlias(data, 1, 2)
    /\ uerr = "bad data: alias target out of range"

\* C6: when UnmarshalBinary returns an error the receiving Alias is not
\* partially populated: its table, avgP, maxRi, maxRj and dummy are after
\* the call what they were before it, also when the offending record is not
\* the first one.
C6_NoPartialPopulation ==
    [][(uerr' \notin {"nil", "none"}) => (a2' = a2)]_vars

\* C7: UnmarshalBinary is total over byte buffers: for every buffer, the
\* empty one and the one of exactly 4 bytes included, it returns a decoded
\* table or an error and never aborts at run time.
C7_Total ==
    (pc \in {"decoded", "overwritten"} /\ gen.pc = "idle") => panic = ""

\* the slots whose threshold is avgP - 1
FullSlots ==
    {i \in 1..Len(al.table) : al.table[i].prob = U32Sub(al.avgP, BNOne)}

\* every slot has a threshold < avgP and an alias in [0, M)
SlotsInRange ==
    \A i \in 1..Len(al.table) :
       /\ BNLt(al.table[i].prob, al.avgP)
       /\ BNLt(al.table[i].alias, BNFromInt(Len(al.table)))

\* C8 as stated: in every table built from valid weights exactly one slot
\* has threshold avgP - 1, and every slot has a threshold < avgP and an
\* alias in [0, M).
C8_ExactlyOne ==
    HaveTable => (Cardinality(FullSlots) = 1 /\ SlotsInRange)

\* C8 amended: in every table built from valid weights at least one slot
\* has threshold avgP - 1 (there may be several, up to all M), and every
\* slot has a threshold < avgP and an alias in [0, M).
C8_AtLeastOne ==
    HaveTable => (Cardinality(FullSlots) >= 1 /\ SlotsInRange)

\* a table of unequal weights in which two slots hold avgP - 1 and a
\* third does not
C8_Witness ==
    /\ HaveTable
    /\ Len(al.table) = 3
    /\ Len(weights) = 3
    /\ weights[1] # weights[2]
    /\ Cardinality(FullSlots) = 2

\* byte k (0 the lowest) of the 32-bit value v, v a uint32 below 2^31
LEByte(v, k) == (BNToInt(v) \div (256 ^ k)) % 256

\* C9: MarshalBinary writes the slots in index order, each as 4 bytes
\* little-endian threshold then 4 bytes little-endian alias, and appends the
\* 4-byte little-endian dummy index iff dummy # M; the length is 8*M + 4
\* exactly when padding was used and 8*M otherwise; it returns no error.
C9_Layout ==
    (HaveTable /\ merr # "none") =>
        /\ merr = "nil"
        /\ (al.dummy # BNFromInt(Len(al.table)))
              <=> (Len(al.table) = Len(weights) + 1)
        /\ Len(data) = IF Len(al.table) = Len(weights) + 1
                       THEN 8 * Len(al.table) + 4
                       ELSE 8 * Len(al.table)
        /\ \A i \in 0..(Len(al.table) - 1) : \A k \in 0..3 :
              /\ data[8 * i + k + 1] = LEByte(al.table[i + 1].prob, k)
              /\ data[8 * i + 4 + k + 1] = LEByte(al.table[i + 1].alias, k)
        /\ (al.dummy # BNFromInt(Len(al.table))) =>
              \A k \in 0..3 :
                 data[8 * Len(al.table) + k + 1] = LEByte(al.dummy, k)

\* a New table of three slots, one threshold 2^31 - 1, encoded in 24 bytes
C9_Witness ==
    /\ HaveTable /\ merr = "nil"
    /\ kind = "float"
    /\ Len(al.table) = 3 /\ Len(data) = 24
    /\ \E i \in 0..2 : <<data[8 * i + 1], data[8 * i + 2], data[8 * i + 3],
                          data[8 * i + 4]>> = <<255, 255, 255, 127>>
    /\ \E i \in 0..2 : data[8 * i + 5] = 2

\* the raw pair (ri, rj) passes both rejection bounds and resolves to an
\* outcome other than the dummy index
Accepted(ri, rj) ==
    /\ BNLe(ri, al.maxRi)
    /\ BNLe(rj, al.maxRj)
    /\ Resolve(al, BNToInt(BNDivMod(ri, BNFromInt(Len(al.table))).r),
               BNDivMod(rj, al.avgP).r) # al.dummy

\* C10: on every table built from valid weights Gen's rejection loop
\* terminates under fair draws: some raw pair (ri, rj) passes both
\* rejection bounds and resolves to an outcome other than the dummy index,
\* so a Gen that has begun eventually returns.
C10_GenTerminates ==
    /\ [](HaveTable => \E ri \in RawVals : \E rj \in RawVals : Accepted(ri, rj))
    /\ (HaveTable /\ gen.pc = "begin") ~> (gen.pc = "returned")

\* Gen is at begin on a padded table on which some draws are over a
\* rejection bound, some resolve to the dummy index and some are accepted
C10_Witness ==
    /\ HaveTable /\ gen.pc = "begin"
    /\ Len(al.table) = Len(weights) + 1
    /\ \E ri \in RawVals : BNGt(ri, al.maxRi)
    /\ \E ri \in RawVals : \E rj \in RawVals :
          GenPass(al, ri, rj).again /\ GenPass(al, ri, rj).w = al.dummy
    /\ \E ri \in RawVals : \E rj \in RawVals : Accepted(ri, rj)

\* the stages of NewInt(w) up to the end of its pairing loop: the padding
\* step, the partition and the pairing
IntPadOf(w) == PadInt(w, Len(w), SumInt(w, 1, <<>>).total)
IntPartitionOf(w) ==
    PartitionInt(IntPadOf(w).prob, IntPadOf(w).avg, 0,
                 [twins |-> MakeIPieces(IntPadOf(w).n), smTop |-> -1,
                  lgBot |-> IntPadOf(w).n])
IntPairedOf(w) ==
    PairInt(IntPadOf(w).n, IntPadOf(w).avg,
            [twins |-> IntPartitionOf(w).twins,
             smTop |-> IntPartitionOf(w).smTop,
             lgBot |-> IntPartitionOf(w).lgBot,
             table |-> MakeIPieces(IntPadOf(w).n)])

\* the partition of New(w) for the integer-valued float64 weights w
FloatsOf(w) == [i \in 1..Len(w) |-> F64FromInt(w[i])]
FloatPartitionOf(w) ==
    PartitionFloat(FloatsOf(w),
                   F64Div(F64FromInt(Len(w)),
                          SumFloat(FloatsOf(w), 1, F64Zero).total),
                   0,
                   [twins |-> MakeFPieces(Len(w)), smTop |-> -1,
                    lgBot |-> Len(w)])

\* a builder was called on valid weights
BuilderRan == pc \in {"built", "failed"} /\ ValidWeights(weights)

\* the builder called on valid weights has just returned: the caller has
\* made no other call yet
JustBuilt ==
    /\ BuilderRan
    /\ gen.pc = "idle" /\ merr = "none" /\ uerr = "none"
    /\ \A g \in Readers : readers[g].pc = "idle"

\* C11: for every valid weight vector no internal-invariant abort is
\* reachable in the builders: the builder returns a table without a panic,
\* after the partition the two stacks exactly fill the scratch array
\* (lgBot = smTop + 1), the pairing loop of NewInt ends with the small
\* stack empty (smTop = -1), and checkAvgP finds a slot with threshold
\* avgP - 1 in the table of New and of NewInt.
C11_NoInternalAbort ==
    /\ BuilderRan =>
          /\ panic = "" /\ err = "nil" /\ ~alnil
          /\ checkAvgP(al)
    /\ (JustBuilt /\ kind = "float") =>
          FloatPartitionOf(weights).lgBot
              = FloatPartitionOf(weights).smTop + 1
    /\ (JustBuilt /\ kind = "int") =>
          /\ IntPartitionOf(weights).lgBot
                = IntPartitionOf(weights).smTop + 1
          /\ IntPairedOf(weights).smTop = -1

\* NewInt returned a padded table whose partition put blocks on both
\* stacks, so that the pairing loop ran
C11_Witness ==
    /\ BuilderRan /\ kind = "int"
    /\ Len(weights) = 3
    /\ Len(al.table) = 4
    /\ IntPartitionOf(weights).smTop >= 1
    /\ IntPartitionOf(weights).lgBot < 4
    /\ IntPairedOf(weights).smTop = -1

\* what reader g returned is what one pass of Gen returns on the shared
\* table for g's last draw
ReturnsAsAlone(g) ==
    readers[g].pc = "returned" =>
        /\ ~GenPass(al, readers[g].ri, readers[g].rj).again
        /\ GenPass(al, readers[g].ri, readers[g].rj).w = readers[g].ret

RECURSIVE TotalOf(_)
TotalOf(w) == IF w = <<>> THEN 0 ELSE Head(w) + TotalOf(Tail(w))

\* NewInt returned a table for valid weights
IntBuilt == HaveTable /\ kind = "int" /\ ValidWeights(weights)

\* the padding step on the two largest weights that differ: their total
\* 2^32 - 3 is odd, and the synthetic weight is 2^31
BigWeights == <<2147483647, 2147483646>>
BigPad == PadInt(BigWeights, 2, BNSub(Two32, <<3>>))

\* C13: NewInt pads exactly when needed.  With total the sum of the N
\* weights: if N divides total the table has M = N slots, unit = total / N
\* and dummy = M; otherwise it has M = N + 1 slots, unit is
\* floor(total / N) + 1, dummy = N, and the synthetic weight
\* unit * (N + 1) - total is strictly positive and makes the padded total
\* equal to unit * M exactly.
C13_PadsWhenNeeded ==
    /\ IntBuilt =>
          IF TotalOf(weights) % Len(weights) = 0
          THEN /\ Len(al.table) = Len(weights)
               /\ BNToInt(al.avgP) = TotalOf(weights) \div Len(weights)
               /\ BNToInt(al.dummy) = Len(al.table)
               /\ IntPadOf(weights).prob = weights
          ELSE /\ Len(al.table) = Len(weights) + 1
               /\ BNToInt(al.avgP) = (TotalOf(weights) \div Len(weights)) + 1
               /\ BNToInt(al.dummy) = Len(weights)
               /\ Len(IntPadOf(weights).prob) = Len(weights) + 1
               /\ IntPadOf(weights).prob[Len(weights) + 1]
                     = BNToInt(al.avgP) * (Len(weights) + 1) - TotalOf(weights)
               /\ IntPadOf(weights).prob[Len(weights) + 1] > 0
               /\ BNToInt(IntPadOf(weights).total)
                     = BNToInt(al.avgP) * Len(al.table)
    /\ BigPad.n = 3
    /\ BigPad.avg = MaxProb
    /\ U32FromInt32(BigPad.prob[3]) = Two31
    /\ BigPad.total = BNMul(BigPad.avg, <<3>>)

\* NewInt padded: the total 5 of three weights is no multiple of 3, the
\* unit is 2 and the synthetic weight 3
C13_Witness ==
    /\ IntBuilt
    /\ Len(weights) = 3
    /\ TotalOf(weights) = 5
    /\ Len(al.table) = 4
    /\ al.avgP = <<2>>
    /\ al.dummy = <<3>>
    /\ IntPadOf(weights).prob[4] = 3

\* the moduli calcMax is tried on: the small ones, and 2^30 + 1, 2^31 - 1
\* and 2^31
ModuliTried ==
    {BNFromInt(k) : k \in 1..MaxModulus}
    \cup {BNAdd(BNShl(BNOne, 30), BNOne), MaxProb, Two31}

\* the raw 31-bit values r <= max are a positive multiple of n in number:
\* max is a 31-bit value and max + 1 is a multiple of n, and at least n
UnbiasedBound(n, max) ==
    /\ BNLe(max, MaxProb)
    /\ BNGe(BNAdd(max, BNOne), n)
    /\ BNDivMod(BNAdd(max, BNOne), n).r = <<>>

\* calcMax gives an unbiased bound for every modulus tried
CalcMaxUnbiased ==
    \A n \in ModuliTried : ~calcMax(n).panic /\ UnbiasedBound(n, calcMax(n).v)

\* the two bounds of the table t are unbiased for its two moduli
TableUnbiased(t) ==
    /\ UnbiasedBound(BNFromInt(Len(t.table)), t.maxRi)
    /\ UnbiasedBound(t.avgP, t.maxRj)

\* a2 holds a table decoded without error or panic
HaveDecoded == pc = "decoded" /\ uerr = "nil" /\ panic = ""

\* C14: the rejection bounds remove modulo bias.  For every modulus n tried
\* in [1, 2^31] the number of raw 31-bit values r <= calcMax(n) is a
\* positive multiple of n; in every table, built or decoded, this holds of
\* maxRi for the modulus M and of maxRj for the modulus avgP; and a pass of
\* Gen uses its draw only when both raw values pass their bound, and goes
\* back to begin, both values discarded, when either fails.
C14_NoModuloBias ==
    /\ [](CalcMaxUnbiased)
    /\ [](HaveTable => TableUnbiased(al))
    /\ [](HaveDecoded => TableUnbiased(a2))
    /\ [][(gen.pc = "drawn" /\ gen'.pc = "returned") =>
            BNLe(gen.ri, Sampled.maxRi) /\ BNLe(gen.rj, Sampled.maxRj)]_vars
    /\ [][(/\ gen.pc = "drawn" /\ gen' # gen
           /\ BNGt(gen.ri, Sampled.maxRi) \/ BNGt(gen.rj, Sampled.maxRj))
            => gen' = GenBegin]_vars

\* Gen returned on a table of 3 slots and unit 3: both bounds are below
\* the largest raw value, so that some raw values are rejected
C14_Witness ==
    /\ HaveTable
    /\ Len(al.table) = 3
    /\ al.avgP = <<3>>
    /\ BNLt(al.maxRi, MaxProb)
    /\ BNLt(al.maxRj, MaxProb)
    /\ gen.pc = "returned"
    /\ BNLe(gen.ri, al.maxRi) /\ BNLe(gen.rj, al.maxRj)

\* C15: for every table produced by a successful UnmarshalBinary (M >= 1,
\* with or without the trailing dummy word) Gen eventually returns under
\* fair random draws, and the value it returns is a slot index in [0, M)
\* different from the decoded dummy index.
C15_DecodedGenReturns ==
    /\ []((HaveDecoded /\ gen.pc = "returned") =>
            /\ BNLt(gen.ret, BNFromInt(Len(a2.table)))
            /\ gen.ret # a2.dummy)
    /\ (HaveDecoded /\ gen.pc = "begin") ~> (gen.pc = "returned")

====
